---- MODULE Spec2Model ----
(***************************************************************************)
(* A model of the proof-of-work node of yannbolliger/proof-of-work:        *)
(* hashing (src/hash.rs), transactions and Merkle hashing (src/tx.rs),     *)
(* block headers and blocks (src/block.rs), the chain store (src/chain.rs) *)
(* and the node state machine (src/bin/node.rs).                           *)
(*                                                                         *)
(* A byte string is a sequence of naturals.  SHA-256 is modelled as an     *)
(* injective function: a digest keeps the bytes it was computed from (id)  *)
(* and the number of its leading zero bytes (zeros), which is a fixed      *)
(* function of those bytes.                                                *)
(***************************************************************************)
EXTENDS Integers, Sequences, FiniteSets, TLC

(***************************************************************************)
(* Bounds of the model                                                     *)
(***************************************************************************)
\* the transactions a peer may propose are 1..NumTx
NumTx == 2
\* the longest transaction sequence of an inbound block
MaxTxsLen == 2
\* stands for u32::MAX: nonces are 0..NonceMax
NonceMax == 3
\* the chain store is explored until it holds this many non-genesis blocks
MaxBlocks == 3
\* the same for the chain of a node that also receives transactions
MaxNodeBlocks == 2
\* the addresses of other nodes are 1..NumAddrs where the node handles all
\* its messages, and 1..NumManyAddrs where it handles only those of peers
NumAddrs == 1
NumManyAddrs == 10
\* the longest list of an Addr message
MaxAddrsLen == 2

(***************************************************************************)
(* Program constants                                                       *)
(***************************************************************************)
HASH_LENGTH == 32
GLOBAL_DIFFICULTY == 2
GENESIS_NONCE == 437
GENESIS_DIFFICULTY == 1
\* the genesis transaction; the proposed transactions are 1..NumTx
GENESIS_TX == 0
MAX_TXS == 100
\* the peers that the reply to a Connect lists besides the node itself
TAKE_PEERS == 9
\* the address of the node
DEFAULT_SOCKET == 0

(***************************************************************************)
(* src/hash.rs                                                             *)
(***************************************************************************)
\* a rolling checksum of the first n of the bytes
RECURSIVE MixUpTo(_, _)
MixUpTo(bytes, n) ==
    IF n = 0 THEN 0 ELSE (3 * MixUpTo(bytes, n - 1) + bytes[n]) % 5

MixBytes(bytes) == MixUpTo(bytes, Len(bytes))

\* The number of leading zero bytes of the SHA-256 digest of bytes: a fixed
\* function of the bytes, here of a rolling checksum of them.  One input in
\* five has two leading zero bytes and one in five has exactly one; the
\* genesis header has the zero byte it declares (block.rs's test
\* genesis_block_is_valid).
ZeroBytes(bytes) ==
    LET r == MixBytes(bytes)
    IN  CASE r = 3 -> 2
          [] r = 4 -> 1
          [] OTHER -> 0

\* fn hash(bytes) / Hashable::hash_bytes
hash_bytes(bytes) == [zeros |-> ZeroBytes(bytes), id |-> bytes]

\* The bytes of a Hash inside a serialisation or a concatenation.
HashBytes(h) == <<h.zeros, Len(h.id)>> \o h.id

\* [0; HASH_LENGTH]
ZERO_HASH == [zeros |-> HASH_LENGTH, id |-> <<>>]

\* s[..leading] panics when leading exceeds the length of the hash
has_leading_zeros_panics(s, leading) == leading > HASH_LENGTH

has_leading_zeros(s, leading) == leading <= s.zeros

(***************************************************************************)
(* src/tx.rs                                                               *)
(***************************************************************************)
TxIds == 1..NumTx

\* impl Hashable for Transaction
Transaction_hash(tx) == hash_bytes(<<tx>>)

\* fn hash(txs: &[Transaction]): the Merkle hash of a non-empty sequence
RECURSIVE merkle(_)
merkle(txs) ==
    CASE Len(txs) = 2 ->
           hash_bytes(HashBytes(Transaction_hash(txs[1]))
                      \o HashBytes(Transaction_hash(txs[2])))
      [] Len(txs) = 1 ->
           LET hash == Transaction_hash(txs[1])
           IN  hash_bytes(HashBytes(hash) \o HashBytes(hash))
      [] OTHER ->
           LET mid == Len(txs) \div 2
               a == SubSeq(txs, 1, mid)
               b == SubSeq(txs, mid + 1, Len(txs))
           IN  hash_bytes(HashBytes(merkle(a)) \o HashBytes(merkle(b)))

\* [] => panic!("cannot hash an empty merkle tree")
Transactions_hash_panics(txs) == txs = <<>>

\* impl Hashable for Transactions
Transactions_hash(txs) == merkle(txs)

Transactions_genesis == <<GENESIS_TX>>

GENESIS_TXS_HASH == Transactions_hash(Transactions_genesis)

(***************************************************************************)
(* src/block.rs                                                            *)
(***************************************************************************)
GENESIS_HEADER ==
    [prev_block_hash |-> ZERO_HASH,
     merkle_hash     |-> GENESIS_TXS_HASH,
     difficulty      |-> GENESIS_DIFFICULTY,
     nonce           |-> GENESIS_NONCE]

\* impl Hashable for BlockHeader: the hash of the serialised header
BlockHeader_hash(header) ==
    hash_bytes(HashBytes(header.prev_block_hash)
               \o HashBytes(header.merkle_hash)
               \o <<header.difficulty, header.nonce>>)

BlockHeader_is_valid_panics(header) ==
    has_leading_zeros_panics(BlockHeader_hash(header), header.difficulty)

BlockHeader_is_valid(header) ==
    has_leading_zeros(BlockHeader_hash(header), header.difficulty)

\* BlockHeader::new: a header with nonce 0
BlockHeader_new(prev_block_hash, merkle_hash, difficulty) ==
    [prev_block_hash |-> prev_block_hash,
     merkle_hash     |-> merkle_hash,
     difficulty      |-> difficulty,
     nonce           |-> 0]

\* the nonces BlockHeader::solve tries, (0..u32::MAX): u32::MAX is not among them
SolveRange == 0..(NonceMax - 1)

SolvesHeader(header, n) ==
    has_leading_zeros(BlockHeader_hash([header EXCEPT !.nonce = n]),
                      header.difficulty)

\* .find(..).unwrap() panics when no nonce of the range solves the header,
\* and has_leading_zeros panics on the first nonce when the difficulty is
\* longer than a hash
solve_panics(header) ==
    \/ header.difficulty > HASH_LENGTH
    \/ \A n \in SolveRange : ~SolvesHeader(header, n)

\* BlockHeader::solve: the first nonce of the range that solves the header
solve(header) ==
    CHOOSE n \in SolveRange :
        /\ SolvesHeader(header, n)
        /\ \A k \in SolveRange : k < n => ~SolvesHeader(header, k)

BlockHeader_mine_new(prev_block_hash, merkle_hash, difficulty) ==
    LET initial == BlockHeader_new(prev_block_hash, merkle_hash, difficulty)
    IN  [initial EXCEPT !.nonce = solve(initial)]

\* Block::new, which panics as Transactions::hash does
Block_new(prev_block_hash, difficulty, transactions) ==
    [header |-> BlockHeader_new(prev_block_hash,
                                Transactions_hash(transactions), difficulty),
     transactions |-> transactions]

\* Block::genesis
Block_genesis ==
    [header |-> GENESIS_HEADER, transactions |-> Transactions_genesis]

Block_mine_new_panics(prev_block_hash, difficulty, transactions) ==
    \/ Transactions_hash_panics(transactions)
    \/ solve_panics(BlockHeader_new(prev_block_hash,
                                    Transactions_hash(transactions), difficulty))

\* Block::mine_new
Block_mine_new(prev_block_hash, difficulty, transactions) ==
    [header |-> BlockHeader_mine_new(prev_block_hash,
                                     Transactions_hash(transactions), difficulty),
     transactions |-> transactions]

\* impl Hashable for Block: a block's hash is only its header's hash
Block_hash(block) == BlockHeader_hash(block.header)

\* Block::is_valid evaluates transactions.hash() first, and the header's
\* validity only when the Merkle hash matches (&& is short-circuit).
Block_is_valid_panics(block) ==
    \/ Transactions_hash_panics(block.transactions)
    \/ /\ Transactions_hash(block.transactions) = block.header.merkle_hash
       /\ BlockHeader_is_valid_panics(block.header)

Block_is_valid(block) ==
    /\ Transactions_hash(block.transactions) = block.header.merkle_hash
    /\ BlockHeader_is_valid(block.header)

(***************************************************************************)
(* src/chain.rs                                                            *)
(***************************************************************************)
BlockChain_new ==
    LET genesis_block == Block_genesis
        genesis_hash  == Block_hash(genesis_block)
    IN  [blocks |-> [h \in {genesis_hash} |->
                        [block |-> genesis_block, height |-> 0]],
         highest_block_hash |-> genesis_hash]

\* .expect("highest block hash must be in the chain")
highest_block_entry_panics(c) == c.highest_block_hash \notin DOMAIN c.blocks

highest_block_entry(c) == c.blocks[c.highest_block_hash]

highest_block(c) == highest_block_entry(c).block

main_chain_length(c) == highest_block_entry(c).height + 1
\* Variants of the comparison at chain.rs:66, against which C1 and C3 are
\* tested: one that never lets a block one above the tip move it, and one
\* that lets a block as high as the tip displace it.
MovesTip_above(c, height) == height > main_chain_length(c)

MovesTip_ties(c, height) == height + 1 >= main_chain_length(c)

\* The main-chain pointer moves when the new entry is at least as high as
\* the length of the main chain.
MovesTip(c, height) == height >= main_chain_length(c)

\* A variant of the lookup of the parent that finds every parent, against
\* which C5 is tested.
MapGet_any(m, k) ==
    IF k \in DOMAIN m THEN [some |-> TRUE, entry |-> m[k]]
    ELSE [some |-> TRUE, entry |-> [height |-> 0]]

\* self.blocks.get(&hash)
MapGet(m, k) ==
    IF k \in DOMAIN m THEN [some |-> TRUE, entry |-> m[k]] ELSE [some |-> FALSE]

\* HashMap::insert: the entry under the key is set, also when one was there
MapInsert(m, k, v) == [x \in DOMAIN m \cup {k} |-> IF x = k THEN v ELSE m[x]]

\* A variant of the result of the insertion that ignores a previous entry,
\* against which C4 is tested.
InsertIsNone_always(m, k) == TRUE

\* HashMap::insert(..).is_none(): no entry was under the key
InsertIsNone(m, k) == k \notin DOMAIN m

\* A variant of the new entry that keeps the height of the parent, against
\* which C2 is tested.
NewEntry_flat(block, parent) == [block |-> block, height |-> parent.height]

\* the entry of a block accepted on parent
NewEntry(block, parent) == [block |-> block, height |-> parent.height + 1]

\* BlockChain::add_block: the store afterwards and the value returned.
\* is_valid() is called before anything is written, so a panic leaves the
\* store as it was.
BlockChain_add_block(c, block) ==
    IF Block_is_valid_panics(block)
    THEN [chain |-> c, ret |-> FALSE, panic |-> TRUE]
    ELSE LET parent == IF Block_is_valid(block)
                       THEN MapGet(c.blocks, block.header.prev_block_hash)
                       ELSE [some |-> FALSE]
         IN  IF parent.some
             THEN LET entry == NewEntry(block, parent.entry)
                      hash  == Block_hash(block)
                      tip   == IF MovesTip(c, entry.height)
                               THEN hash ELSE c.highest_block_hash
                  IN  [chain |-> [blocks |-> MapInsert(c.blocks, hash, entry),
                                  highest_block_hash |-> tip],
                       ret   |-> InsertIsNone(c.blocks, hash),
                       panic |-> FALSE]
             ELSE [chain |-> c, ret |-> FALSE, panic |-> FALSE]

(***************************************************************************)
(* src/msg.rs                                                              *)
(***************************************************************************)
Connect(addr) == [type |-> "Connect", addr |-> addr]

Addr(addrs) == [type |-> "Addr", addrs |-> addrs]

Tx(txs) == [type |-> "Tx", txs |-> txs]

NewBlock(block) == [type |-> "NewBlock", block |-> block]

\* Option<Message>
None == [some |-> FALSE]

Some(message) == [some |-> TRUE, msg |-> message]

(***************************************************************************)
(* src/bin/node.rs                                                         *)
(***************************************************************************)
Range(seq) == {seq[i] : i \in DOMAIN seq}

\* The elements of a set of numbers as a list.  A HashSet is iterated in an
\* unspecified order; the model lists what an iteration yields in ascending
\* order and leaves free which elements a take(n) yields.
RECURSIVE Ascending(_)
Ascending(S) ==
    IF S = {} THEN <<>>
    ELSE LET least == CHOOSE x \in S : \A y \in S : x <= y
         IN  <<least>> \o Ascending(S \ {least})

\* what iter().take(n) may yield of a HashSet
TakeSets(S, n) ==
    IF Cardinality(S) <= n THEN {S}
    ELSE {T \in SUBSET S : Cardinality(T) = n}

\* the orders in which the values of a small HashMap may be iterated
RECURSIVE Orders(_)
Orders(S) ==
    IF S = {} THEN {<<>>}
    ELSE UNION {{<<x>> \o rest : rest \in Orders(S \ {x})} : x \in S}

\* Node::new: the mempool is empty, the chain holds genesis, and the peers
\* are the ones given, whichever they are
Node_new(addr, initial_peers) ==
    [address |-> addr, peers |-> initial_peers, mempool |-> <<>>,
     chain |-> BlockChain_new]

\* A variant of the pruning that keeps every entry, against which C6 is
\* tested.
Retain_all(m, txs) == m

\* self.mempool.retain(|h, _| !txs.contains(h))
Retain(m, txs) == [h \in DOMAIN m \ txs |-> m[h]]

\* Node::add_block
Node_add_block(n, block) ==
    LET r == BlockChain_add_block(n.chain, block)
    IN  IF r.panic THEN [node |-> n, is_new |-> FALSE, panic |-> TRUE]
        ELSE LET txs == {Transaction_hash(t) : t \in Range(block.transactions)}
                 pool == IF r.ret THEN Retain(n.mempool, txs) ELSE n.mempool
             IN  [node  |-> [n EXCEPT !.chain = r.chain, !.mempool = pool],
                  is_new |-> r.ret, panic |-> FALSE]

\* Message::Connect(addr): the outcomes of handle, one for each choice of
\* the peers that the reply lists
handle_Connect(n, addr) ==
    IF addr = n.address
    THEN {[node |-> n, reply |-> None, cmd |-> "Keep", panic |-> FALSE]}
    ELSE LET inserted == addr \notin n.peers
             known    == n.peers \cup {addr}
             node     == [n EXCEPT !.peers = known]
         IN  IF inserted
             THEN {[node  |-> node,
                    reply |-> Some(Addr(Ascending(T) \o <<n.address>>)),
                    cmd   |-> "Keep", panic |-> FALSE] :
                      T \in TakeSets(known, TAKE_PEERS)}
             ELSE {[node |-> node, reply |-> None, cmd |-> "Keep",
                    panic |-> FALSE]}

\* Message::Addr(addrs)
handle_Addr(n, addrs) ==
    LET others == {a \in Range(addrs) : a # n.address}
    IN  {[node |-> [n EXCEPT !.peers = n.peers \cup others],
          reply |-> None, cmd |-> "Keep", panic |-> FALSE]}

\* self.mempool.extend(new_txs)
Extend(m, new_txs) ==
    [h \in DOMAIN m \cup {Transaction_hash(t) : t \in Range(new_txs)} |->
        IF h \in DOMAIN m /\ \A t \in Range(new_txs) : Transaction_hash(t) # h
        THEN m[h]
        ELSE CHOOSE t \in Range(new_txs) : Transaction_hash(t) = h]

\* A variant of the filter that takes every transaction for unknown,
\* against which C9 is tested.
IsUnknown_always(m, t) == TRUE

\* A variant of the filter that takes every transaction for known, against
\* which C23 is tested.
IsUnknown_never(m, t) == FALSE

\* .filter(|(h, _)| !self.mempool.contains_key(h))
IsUnknown(m, t) == Transaction_hash(t) \notin DOMAIN m

\* Message::Tx(txs)
handle_Tx(n, txs) ==
    LET unknown(t) == IsUnknown(n.mempool, t)
        new_txs == SelectSeq(txs, unknown)
    IN  {[node  |-> [n EXCEPT !.mempool = Extend(n.mempool, new_txs)],
          reply |-> IF new_txs # <<>> THEN Some(Tx(new_txs)) ELSE None,
          cmd   |-> "Start", panic |-> FALSE]}

\* Message::NewBlock(block)
handle_NewBlock(n, block) ==
    LET r == Node_add_block(n, block)
    IN  IF r.panic
        THEN {[node |-> n, reply |-> None, cmd |-> "Keep", panic |-> TRUE]}
        ELSE {[node  |-> r.node,
               reply |-> IF r.is_new THEN Some(NewBlock(block)) ELSE None,
               cmd   |-> IF highest_block(r.node.chain) = block
                         THEN "Restart" ELSE "Start",
               panic |-> FALSE]}

\* Node::handle
handle(n, message) ==
    CASE message.type = "Connect"  -> handle_Connect(n, message.addr)
      [] message.type = "Addr"     -> handle_Addr(n, message.addrs)
      [] message.type = "Tx"       -> handle_Tx(n, message.txs)
      [] message.type = "NewBlock" -> handle_NewBlock(n, message.block)

(***************************************************************************)
(* The blocks a caller or a peer may present                               *)
(***************************************************************************)
RECURSIVE SeqsUpTo(_, _)
SeqsUpTo(S, n) ==
    IF n = 0 THEN {<<>>}
    ELSE LET shorter == SeqsUpTo(S, n - 1)
         IN  shorter \cup {Append(s, x) : s \in shorter, x \in S}

\* The chain store reads the transactions of a block only to hash them:
\* its callers present blocks over one transaction.
ChainTxSeqs == SeqsUpTo({1}, MaxTxsLen)

Nonces == 0..NonceMax

\* a difficulty below the global one, the global one, and one that is longer
\* than a hash
Difficulties == {GLOBAL_DIFFICULTY - 1, GLOBAL_DIFFICULTY, HASH_LENGTH + 1}

\* the Merkle hash a header may declare for txs: the right one, or another
MerkleChoices(txs) ==
    (IF txs = <<>> THEN {} ELSE {Transactions_hash(txs)}) \cup {GENESIS_TXS_HASH}

\* what a block holds besides the hash of its parent
Bodies(seqs, difficulties) ==
    UNION {{[merkle_hash |-> m, difficulty |-> d, nonce |-> n,
             transactions |-> txs] :
               m \in MerkleChoices(txs), d \in difficulties, n \in Nonces} :
           txs \in seqs}

InputBodies == Bodies(ChainTxSeqs, Difficulties)

\* a block on genesis, as chain.rs's test mines its first block
FIRST_BLOCK ==
    Block_mine_new(Block_hash(Block_genesis), GLOBAL_DIFFICULTY, <<1>>)

\* the parents a block may name: a stored block, the parent of genesis, and
\* a block that may not have arrived yet
PrevChoices(c) == DOMAIN c.blocks \cup {ZERO_HASH, Block_hash(FIRST_BLOCK)}

BlocksOn(c, bodies) ==
    {Block_genesis} \cup
    {[header |-> [prev_block_hash |-> p, merkle_hash |-> x.merkle_hash,
                  difficulty |-> x.difficulty, nonce |-> x.nonce],
      transactions |-> x.transactions] :
        p \in PrevChoices(c), x \in bodies}

InputBlocks(c) == BlocksOn(c, InputBodies)

\* The messages of peers: the transaction lists, the blocks and the
\* addresses that they may send to the node
NodeTxSeqs == SeqsUpTo(TxIds, MaxTxsLen)

\* The blocks of peers on the parent prev over txs: the block as Block::new
\* makes it, the block as Block::mine_new makes it, and that block with
\* other transactions than it has hashed and with a difficulty that is
\* longer than a hash; without transactions, a block that could not have
\* been made by either
BlocksOver(prev, txs) ==
    IF txs = <<>>
    THEN {[header |-> BlockHeader_new(prev, GENESIS_TXS_HASH, GLOBAL_DIFFICULTY),
           transactions |-> txs]}
    ELSE {Block_new(prev, GLOBAL_DIFFICULTY, txs)} \cup
         IF Block_mine_new_panics(prev, GLOBAL_DIFFICULTY, txs) THEN {}
         ELSE LET mined == Block_mine_new(prev, GLOBAL_DIFFICULTY, txs)
              IN  {mined,
                   [mined EXCEPT !.transactions = Transactions_genesis],
                   [mined EXCEPT !.header.difficulty = HASH_LENGTH + 1]}

PeerBlocks(c) ==
    {Block_genesis} \cup
    UNION {BlocksOver(prev, txs) : prev \in PrevChoices(c), txs \in NodeTxSeqs}

\* the addresses besides the node's own: a few where the node also handles
\* transactions and blocks, more than TAKE_PEERS where it handles peers only
Addrs == DEFAULT_SOCKET..NumAddrs

ManyAddrs == DEFAULT_SOCKET..NumManyAddrs

(***************************************************************************)
(* State                                                                   *)
(***************************************************************************)
VARIABLES
    address,  \* Node.address
    peers,    \* Node.peers
    mempool,  \* Node.mempool: the transactions under their hashes
    chain,    \* Node.chain, the BlockChain
    mining,   \* main's mining_task and how far start_mining has come
    detached, \* the tasks that run on without a handle in mining_task
    readers,  \* who holds the read lock of the node
    alive,    \* FALSE once a call has panicked or main has returned
    last      \* the call that has returned and what it returned, until the
              \* caller has dealt with it; NoCall between two calls

vars == <<address, peers, mempool, chain, mining, detached, readers, alive, last>>

NoCall == [op |-> "none"]

\* mining_task is None
NoTask == [st |-> "none"]

\* the task is spawned and start_mining has not read the node yet
Spawned == [st |-> "spawned"]

\* the task that a Restart has spawned, with the hash of the block whose
\* arrival made main restart the mining
Restarted(hash) == [st |-> "spawned", restart |-> hash]

\* the task has returned: JoinHandle::is_finished()
Finished == [st |-> "finished"]

\* the task can still run: it is spawned and has neither returned nor been
\* aborted
Running(task) == task.st \notin {"none", "finished"}

\* the fields of the Node
Node ==
    [address |-> address, peers |-> peers, mempool |-> mempool,
     chain |-> chain]

SetNode(n) ==
    /\ address' = n.address
    /\ peers' = n.peers
    /\ mempool' = n.mempool
    /\ chain' = n.chain

StartWith(n) ==
    /\ address = n.address
    /\ peers = n.peers
    /\ mempool = n.mempool
    /\ chain = n.chain
    /\ mining = NoTask
    /\ detached = {}
    /\ readers = {}
    /\ alive = TRUE
    /\ last = NoCall

(***************************************************************************)
(* The chain store under its callers: BlockChain::new, then add_block      *)
(***************************************************************************)
InitChain == StartWith(Node_new(DEFAULT_SOCKET, {}))

\* chain.add_block(&block)
AddBlock(block) ==
    LET r == BlockChain_add_block(chain, block)
    IN  /\ Cardinality(DOMAIN r.chain.blocks) <= MaxBlocks + 1
        /\ chain' = r.chain
        /\ alive' = ~r.panic
        /\ last' = [op |-> "add_block", pre |-> chain, block |-> block,
                    ret |-> r.ret, panic |-> r.panic]
        /\ UNCHANGED <<address, peers, mempool, mining, detached, readers>>

\* the caller goes on to its next call
Return ==
    /\ alive
    /\ last # NoCall
    /\ last.op = "add_block"
    /\ last' = NoCall
    /\ UNCHANGED <<address, peers, mempool, chain, mining, detached, readers, alive>>

NextChain ==
    \/ /\ alive
       /\ last = NoCall
       /\ \E block \in InputBlocks(chain) : AddBlock(block)
    \/ Return

SpecChain == InitChain /\ [][NextChain]_vars

(***************************************************************************)
(* The node: main's event loop and the mining task                         *)
(***************************************************************************)
\* Node::new(address, &initial_peers) with the addresses of the command line
Init == StartWith(Node_new(DEFAULT_SOCKET, Addrs \ {DEFAULT_SOCKET}))

\* main accepts the next message when it has dealt with the last one
Accepting == alive /\ last = NoCall

\* accept_message fails (node.rs:169-174): the bytes read are no message,
\* or the connection fails; the loop `while let Ok(message)` ends and main
\* returns
AcceptError ==
    /\ Accepting
    /\ alive' = FALSE
    /\ last' = [op |-> "accept", ok |-> FALSE]
    /\ UNCHANGED <<address, peers, mempool, chain, mining, detached, readers>>

\* node.handle(message) under the write lock (node.rs:209-212), which main
\* gets when no reader holds the lock
Handle(message) ==
    /\ Accepting
    /\ readers = {}
    /\ \E out \in handle(Node, message) :
          /\ Cardinality(DOMAIN out.node.chain.blocks) <= MaxNodeBlocks + 1
          /\ SetNode(out.node)
          /\ alive' = ~out.panic
          /\ last' = [op |-> "handle", message |-> message, pre |-> Node,
                      post |-> out.node, reply |-> out.reply,
                      cmd |-> out.cmd, panic |-> out.panic]
    /\ UNCHANGED <<mining, detached, readers>>

HandleConnect(addr) == Handle(Connect(addr))

HandleAddr(addrs) == Handle(Addr(addrs))

HandleTx(txs) == Handle(Tx(txs))

HandleNewBlock(block) == Handle(NewBlock(block))

\* A variant of the mining command under which Start spawns a task whatever
\* the task at hand does, against which C14 is tested.
Command_spawns(cmd, task, hash) ==
    CASE cmd = "Restart" ->
           [task |-> Restarted(hash), spawn |-> TRUE, abort |-> TRUE]
      [] cmd = "Start" -> [task |-> Spawned, spawn |-> TRUE, abort |-> FALSE]
      [] OTHER -> [task |-> task, spawn |-> FALSE, abort |-> FALSE]

\* A variant of the mining command under which Restart leaves a task that
\* runs alone, as Start does, against which C15 is tested.
Command_keeps(cmd, task, hash) ==
    CASE cmd \in {"Restart", "Start"} /\ task.st \in {"none", "finished"} ->
           [task |-> Spawned, spawn |-> TRUE, abort |-> FALSE]
      [] OTHER -> [task |-> task, spawn |-> FALSE, abort |-> FALSE]

\* what becomes of mining_task under the mining command (node.rs:214-230):
\* Restart aborts the task and spawns another, Start spawns one when there
\* is none or it has finished; hash is the hash of the block of the message
Command(cmd, task, hash) ==
    CASE cmd = "Restart" ->
           [task |-> Restarted(hash), spawn |-> TRUE, abort |-> TRUE]
      [] cmd = "Start" /\ task.st \in {"none", "finished"} ->
           [task |-> Spawned, spawn |-> TRUE, abort |-> FALSE]
      [] OTHER -> [task |-> task, spawn |-> FALSE, abort |-> FALSE]

\* Message::broadcast (msg.rs:38-41): the peers that the message has been
\* written to when the connection to failed fails; the addresses are taken
\* in ascending order, as Ascending lists them
SentBefore(addrs, failed) == {a \in addrs : a < failed}

\* the outcomes of the broadcast of the reply: every peer is reached, or the
\* connection or the write to one of them fails
BroadcastResults(reply, addrs) ==
    IF ~reply.some THEN {[ok |-> TRUE, sent |-> {}]}
    ELSE {[ok |-> TRUE, sent |-> addrs]} \cup
         {[ok |-> FALSE, sent |-> SentBefore(addrs, f), failed |-> f] :
            f \in addrs}

\* the hash of the block of a NewBlock message, which alone gets a Restart
MessageHash(message) ==
    IF message.type = "NewBlock" THEN Block_hash(message.block) ELSE ZERO_HASH

\* the rest of the iteration of the event loop (node.rs:214-236): the mining
\* command, then the broadcast of the reply under the read lock; main
\* returns when the broadcast fails.  An aborted task drops the lock it holds
Orchestrate ==
    /\ alive
    /\ last # NoCall
    /\ last.op = "handle"
    /\ LET c == Command(last.cmd, mining, MessageHash(last.message))
       IN  /\ mining' = c.task
           /\ detached' = IF c.spawn /\ ~c.abort /\ Running(mining)
                          THEN detached \cup {mining} ELSE detached
           /\ readers' = IF c.abort THEN readers \ {"miner"} ELSE readers
    /\ \E out \in BroadcastResults(last.reply, peers) :
          /\ alive' = out.ok
          /\ last' = IF out.ok THEN NoCall
                     ELSE [op |-> "broadcast", message |-> last.reply.msg,
                           to |-> peers, sent |-> out.sent,
                           failed |-> out.failed]
    /\ UNCHANGED <<address, peers, mempool, chain>>

\* start_mining reads the node (node.rs:124-139): it returns when the mempool
\* is empty, and else takes the tip and up to MAX_TXS transactions
MinerSnapshot ==
    /\ alive
    /\ mining.st = "spawned"
    /\ IF DOMAIN mempool = {}
       THEN mining' = Finished
       ELSE \E taken \in TakeSets(DOMAIN mempool, MAX_TXS) :
            \E order \in Orders(taken) :
               mining' = [st |-> "hashing",
                          prev_hash |-> Block_hash(highest_block(chain)),
                          txs |-> [i \in DOMAIN order |-> mempool[order[i]]]]
    /\ UNCHANGED <<address, peers, mempool, chain, detached, readers, alive,
                   last>>

\* the block is mined and start_mining adds it to the node under the write
\* lock (node.rs:143-151); a panic of the blocking task ends start_mining
MinerCommit ==
    /\ alive
    /\ mining.st = "hashing"
    /\ readers = {}
    /\ IF Block_mine_new_panics(mining.prev_hash, GLOBAL_DIFFICULTY, mining.txs)
       THEN mining' = Finished /\ UNCHANGED <<address, peers, mempool, chain>>
       ELSE LET mined_block == Block_mine_new(mining.prev_hash,
                                              GLOBAL_DIFFICULTY, mining.txs)
                r == Node_add_block(Node, mined_block)
            IN  /\ Cardinality(DOMAIN r.node.chain.blocks) <= MaxNodeBlocks + 1
                /\ SetNode(r.node)
                /\ mining' = IF r.is_new
                             THEN [st |-> "broadcast", block |-> mined_block,
                                   pre |-> Node]
                             ELSE Finished
    /\ UNCHANGED <<detached, readers, alive, last>>

\* start_mining calls broadcast for the block it has added (node.rs:152-153),
\* which takes the read lock (node.rs:161) and keeps it until it returns
MinerBroadcast ==
    /\ alive
    /\ mining.st = "broadcast"
    /\ mining' = [st |-> "sending", block |-> mining.block, sent |-> {}]
    /\ readers' = readers \cup {"miner"}
    /\ UNCHANGED <<address, peers, mempool, chain, detached, alive, last>>

\* Message::broadcast connects and writes to the next peer (msg.rs:38-41);
\* when that fails, broadcast and start_mining return the error
MinerSend ==
    /\ alive
    /\ mining.st = "sending"
    /\ mining.sent # peers
    /\ LET next == CHOOSE a \in peers \ mining.sent :
                      SentBefore(peers, a) \subseteq mining.sent
       IN  \/ /\ mining' = [mining EXCEPT !.sent = @ \cup {next}]
              /\ UNCHANGED readers
           \/ /\ mining' = Finished
              /\ readers' = readers \ {"miner"}
    /\ UNCHANGED <<address, peers, mempool, chain, detached, alive, last>>

\* every peer is written to: broadcast returns and drops the read lock
\* (node.rs:163), and start_mining returns
MinerReturn ==
    /\ alive
    /\ mining.st = "sending"
    /\ mining.sent = peers
    /\ mining' = Finished
    /\ readers' = readers \ {"miner"}
    /\ UNCHANGED <<address, peers, mempool, chain, detached, alive, last>>

Next ==
    \/ Accepting /\ \E txs \in NodeTxSeqs : HandleTx(txs)
    \/ Accepting /\ \E block \in PeerBlocks(chain) : HandleNewBlock(block)
    \/ Orchestrate
    \/ MinerSnapshot
    \/ MinerCommit
    \/ MinerBroadcast
    \/ MinerSend
    \/ MinerReturn
    \/ AcceptError

Spec == Init /\ [][Next]_vars

(***************************************************************************)
(* The node among many peers: the messages about peers only                *)
(***************************************************************************)
InitPeers == \E initial_peers \in SUBSET ManyAddrs :
                 StartWith(Node_new(DEFAULT_SOCKET, initial_peers))

NextPeers ==
    \/ Accepting /\ \E addr \in ManyAddrs : HandleConnect(addr)
    \/ Accepting /\ \E addrs \in SeqsUpTo(ManyAddrs, MaxAddrsLen) :
                        HandleAddr(addrs)
    \/ Orchestrate

SpecPeers == InitPeers /\ [][NextPeers]_vars

(***************************************************************************)
(* Claims about the chain store, checked under SpecChain                   *)
(***************************************************************************)
Heights(c) == {c.blocks[h].height : h \in DOMAIN c.blocks}

MaxHeight(c) == CHOOSE m \in Heights(c) : \A k \in Heights(c) : k <= m

GenesisHash == Block_hash(Block_genesis)

\* a block is valid: it has transactions, its header declares their Merkle
\* hash, and the hash of its header has the leading zero bytes it declares
ValidBlock(block) ==
    /\ block.transactions # <<>>
    /\ Transactions_hash(block.transactions) = block.header.merkle_hash
    /\ block.header.difficulty <= HASH_LENGTH
    /\ BlockHeader_hash(block.header).zeros >= block.header.difficulty

Returned == last.op = "add_block"

\* C1: the tip hash refers to a stored entry whose height is the maximum
\* over all stored entries, and main_chain_length() is that maximum plus 1.
C1_TipIsHighest ==
    /\ chain.highest_block_hash \in DOMAIN chain.blocks
    /\ chain.blocks[chain.highest_block_hash].height = MaxHeight(chain)
    /\ main_chain_length(chain) = MaxHeight(chain) + 1

\* a fork and a branch of two blocks are stored, and a call has returned
C1_Witness ==
    /\ Returned
    /\ Cardinality(DOMAIN chain.blocks) = 4
    /\ main_chain_length(chain) = 3

\* C2: genesis is stored at height 0; the parent of every other stored
\* entry is stored, one below it; and a call removes no entry.
C2_StoreWellFormed ==
    /\ GenesisHash \in DOMAIN chain.blocks
    /\ chain.blocks[GenesisHash].block = Block_genesis
    /\ chain.blocks[GenesisHash].height = 0
    /\ \A h \in DOMAIN chain.blocks \ {GenesisHash} :
          LET prev == chain.blocks[h].block.header.prev_block_hash
          IN  /\ prev \in DOMAIN chain.blocks
              /\ chain.blocks[h].height = chain.blocks[prev].height + 1
    /\ Returned => DOMAIN last.pre.blocks \subseteq DOMAIN chain.blocks

\* a block has been accepted on a parent that is not genesis, after an
\* orphan of that very parent could have been presented
C2_Witness ==
    /\ Returned
    /\ last.ret
    /\ last.block.header.prev_block_hash # GenesisHash
    /\ chain.blocks[Block_hash(last.block)].height = 2

\* C3: the tip changes only when a block strictly higher than the tip is
\* accepted; an accepted block as high as the tip leaves the tip alone.
C3_TieBreak ==
    Returned =>
        LET hash      == Block_hash(last.block)
            tipBefore == last.pre.highest_block_hash
            tipHeight == last.pre.blocks[tipBefore].height
        IN  /\ chain.highest_block_hash # tipBefore =>
                  /\ last.ret
                  /\ chain.highest_block_hash = hash
                  /\ chain.blocks[hash].height > tipHeight
            /\ (last.ret /\ chain.blocks[hash].height <= tipHeight) =>
                  chain.highest_block_hash = tipBefore

\* A was the tip, B as high as A was stored beside it, and C on B has just
\* become the tip of a main chain of length 3, A still stored
C3_Witness ==
    /\ Returned
    /\ last.ret
    /\ LET A == last.pre.highest_block_hash
           B == last.block.header.prev_block_hash
       IN  /\ A # B
           /\ last.pre.blocks[A].height = 1
           /\ last.pre.blocks[B].height = 1
           /\ A \in DOMAIN chain.blocks
    /\ chain.highest_block_hash = Block_hash(last.block)
    /\ main_chain_length(chain) = 3

\* C4: add_block(b) returns true iff b is valid, its parent is stored and
\* its hash was not stored; then the store holds b under hash(b).
C4_AddBlockResult ==
    Returned =>
        LET hash == Block_hash(last.block)
        IN  /\ last.ret <=>
                  /\ ValidBlock(last.block)
                  /\ last.block.header.prev_block_hash \in DOMAIN last.pre.blocks
                  /\ hash \notin DOMAIN last.pre.blocks
            /\ last.ret =>
                  /\ hash \in DOMAIN chain.blocks
                  /\ chain.blocks[hash].block = last.block

\* a block has been accepted beside the tip
C4_Witness ==
    /\ Returned
    /\ last.ret
    /\ chain.highest_block_hash # Block_hash(last.block)

\* C5: add_block of a valid block whose parent is not stored returns false
\* and leaves the tip and the store as they were: the block is not kept.
C5_OrphanRejected ==
    (/\ Returned
     /\ ValidBlock(last.block)
     /\ last.block.header.prev_block_hash \notin DOMAIN last.pre.blocks) =>
        /\ ~last.ret
        /\ ~last.panic
        /\ chain.highest_block_hash = last.pre.highest_block_hash
        /\ chain = last.pre
        /\ Block_hash(last.block) \notin DOMAIN chain.blocks \ {GenesisHash}

\* a valid block on a block that has not arrived was presented when the
\* store already held other blocks
C5_Witness ==
    /\ Returned
    /\ ValidBlock(last.block)
    /\ last.block.header.prev_block_hash = Block_hash(FIRST_BLOCK)
    /\ Block_hash(FIRST_BLOCK) \notin DOMAIN last.pre.blocks
    /\ Cardinality(DOMAIN chain.blocks) > 1

(***************************************************************************)
(* Claims about the node, checked under Spec and SpecPeers                 *)
(***************************************************************************)
Handled(type) ==
    /\ last.op = "handle"
    /\ last.message.type = type
    /\ ~last.panic

TxHashes(txs) == {Transaction_hash(t) : t \in Range(txs)}

\* C6: whenever Node::add_block accepts a block, for a NewBlock message or
\* for the mining task, on the main chain or beside it, right afterwards the
\* mempool holds none of the transactions of the block and every other entry
\* it held before.
C6_AcceptedBlockPruned ==
    [][\A h \in DOMAIN chain'.blocks \ DOMAIN chain.blocks :
          LET txs == TxHashes(chain'.blocks[h].block.transactions)
          IN  /\ DOMAIN mempool' = DOMAIN mempool \ txs
              /\ \A k \in DOMAIN mempool' : mempool'[k] = mempool[k]]_vars

\* a block of a peer has been accepted with one of two pooled transactions
\* and the other was kept, and the mining task has then had its own block
\* accepted beside it
C6_Witness ==
    /\ Handled("NewBlock")
    /\ last.reply.some
    /\ Cardinality(DOMAIN last.pre.mempool) = 2
    /\ Cardinality(DOMAIN last.post.mempool) = 1
    /\ mining.st = "broadcast"
    /\ DOMAIN mining.pre.mempool = DOMAIN last.post.mempool
    /\ mempool = <<>>
    /\ chain.highest_block_hash # Block_hash(mining.block)

\* C7: the peer set never contains the node's own address.
C7_NoSelfPeer == address \notin peers

\* C8: Connect(a), a not the node's own address and not a peer yet: a is
\* inserted, the reply is Addr(list) of at most 10 entries, up to 9 peers
\* known before, none of them a or the node's own address, and the node's
\* own address once; the command is Keep.
C8_ConnectReply ==
    (/\ Handled("Connect")
     /\ last.message.addr # last.pre.address
     /\ last.message.addr \notin last.pre.peers) =>
        /\ last.message.addr \in last.post.peers
        /\ last.cmd = "Keep"
        /\ last.reply.some
        /\ last.reply.msg.type = "Addr"
        /\ LET list == last.reply.msg.addrs
               own  == {i \in DOMAIN list : list[i] = last.pre.address}
           IN  /\ Len(list) <= TAKE_PEERS + 1
               /\ Cardinality(own) = 1
               /\ \A i \in DOMAIN list \ own :
                     /\ list[i] \in last.pre.peers
                     /\ list[i] # last.message.addr
               /\ \A i, j \in DOMAIN list : list[i] = list[j] => i = j

\* C9: Tx(list): the new transactions are those whose hash the mempool did
\* not hold; they are inserted and nothing else is; the reply is Tx(new) iff
\* there is a new one; the command is Start; and a list without a new one
\* gets no reply and leaves the mempool as it was.
C9_TxHandled ==
    Handled("Tx") =>
        LET txs     == last.message.txs
            before  == last.pre.mempool
            after   == last.post.mempool
            isNew(t) == Transaction_hash(t) \notin DOMAIN before
            new     == SelectSeq(txs, isNew)
        IN  /\ DOMAIN after = DOMAIN before \cup TxHashes(new)
            /\ \A h \in DOMAIN before : after[h] = before[h]
            /\ \A t \in Range(new) : after[Transaction_hash(t)] = t
            /\ last.reply.some <=> new # <<>>
            /\ last.reply.some => last.reply.msg = Tx(new)
            /\ last.cmd = "Start"
            /\ new = <<>> => after = before
            /\ last.post.chain = last.pre.chain

\* of two transactions of a message one was pooled already, and the reply
\* carries the other
C9_Witness ==
    /\ Handled("Tx")
    /\ Len(last.message.txs) = 2
    /\ last.message.txs[1] # last.message.txs[2]
    /\ last.reply.some
    /\ Len(last.reply.msg.txs) = 1
    /\ Cardinality(DOMAIN last.post.mempool) = 2

\* C10: NewBlock(b): the reply is NewBlock(b) iff b was newly accepted by
\* this message, and the command is Restart exactly when b became the tip
\* by this message, and Start in every other case.
C10_NewBlockHandled ==
    Handled("NewBlock") =>
        LET b        == last.message.block
            hash     == Block_hash(b)
            accepted == /\ hash \notin DOMAIN last.pre.chain.blocks
                        /\ hash \in DOMAIN last.post.chain.blocks
            becameTip == /\ accepted
                         /\ last.post.chain.highest_block_hash = hash
        IN  /\ last.reply.some <=> accepted
            /\ last.reply.some => last.reply.msg = NewBlock(b)
            /\ last.cmd = IF becameTip THEN "Restart" ELSE "Start"

\* C11: a NewBlock(b) with b invalid in any way (hash short of the declared
\* difficulty, declared difficulty above 32, Merkle mismatch, no
\* transactions, unknown parent) is never fatal: handle completes, there is
\* no reply, the node runs on, and chain and mempool are as before.
C11_InvalidBlockNotFatal ==
    (/\ last.op = "handle"
     /\ last.message.type = "NewBlock"
     /\ \/ ~ValidBlock(last.message.block)
        \/ last.message.block.header.prev_block_hash
              \notin DOMAIN last.pre.chain.blocks) =>
        /\ ~last.panic
        /\ alive
        /\ ~last.reply.some
        /\ last.post.chain = last.pre.chain
        /\ last.post.mempool = last.pre.mempool

\* C12: bytes that are no message (decode failure, truncated or short read)
\* are dropped and the event loop stays alive: the node goes on to accept
\* the next message.
C12_MalformedDropped == (last.op = "accept" /\ ~last.ok) => alive

\* C13: when the connection or the write to one peer fails during a
\* broadcast, the message still goes to every other peer, the failing peer
\* stays in the peer set, and the event loop goes on.
C13_BroadcastFailurePerPeer ==
    last.op = "broadcast" =>
        /\ last.sent = last.to \ {last.failed}
        /\ last.failed \in peers
        /\ alive

\* the step of main that deals with the mining command and the reply
Orchestrated == last.op = "handle" /\ last'.op # "handle"

\* the tasks in flight: spawned, neither aborted nor finished
InFlight ==
    (IF Running(mining) THEN 1 ELSE 0)
        + Cardinality({task \in detached : Running(task)})

\* C14: at most one mining task is in flight at any time, and Start spawns
\* a task only when none is running and never aborts a running one.
C14_OneMiningTask ==
    /\ [](InFlight <= 1)
    /\ [][(Orchestrated /\ last.cmd = "Start" /\ Running(mining)) =>
              (mining' = mining /\ detached' = detached)]_vars

\* a Start has come while the task is searching for a nonce
C14_Witness ==
    /\ last.op = "handle"
    /\ last.cmd = "Start"
    /\ mining.st = "hashing"

\* the block of the message that main deals with has become the tip by it
BecameTip ==
    /\ last.op = "handle"
    /\ last.message.type = "NewBlock"
    /\ ~last.panic
    /\ last.post.chain.highest_block_hash = Block_hash(last.message.block)
    /\ last.pre.chain.highest_block_hash # Block_hash(last.message.block)

\* the task has been spawned by a Restart
IsRestarted(task) == task.st = "spawned" /\ "restart" \in DOMAIN task

RestartDecided == last.op = "handle" /\ last.cmd = "Restart" /\ Running(mining)

\* the mining task writes NewBlock to one more peer in this step
TaskSends ==
    /\ mining.st = "sending"
    /\ mining'.st = "sending"
    /\ mining'.sent # mining.sent

\* C16: once handle has returned Restart for a message, the task in flight
\* adds no block to the chain of the node and sends NewBlock to no peer,
\* whatever steps of the task come between handle and the abort.
C16_CancelledTaskSilent ==
    [][RestartDecided => (chain' = chain /\ ~TaskSends)]_vars

\* the task has had its mined block accepted and has not yet written it to
\* every peer
Broadcasting(task) ==
    \/ task.st = "broadcast"
    \/ task.st = "sending" /\ task.sent # peers

\* C17: a mining task whose mined block has been accepted goes on sending
\* NewBlock(block) to the peers when main deals with a Restart: the step of
\* main leaves a task that is in the middle of its broadcast as it is.
C17_BroadcastNotCancelled ==
    [][(Orchestrated /\ Broadcasting(mining)) => mining' = mining]_vars

\* C20: no network I/O happens while the lock on the node is held: a task
\* that is connecting or writing to a peer holds no read lock, so that no
\* writer waits for the broadcast to end.
C20_NoIOUnderLock ==
    (mining.st = "sending" /\ mining.sent # peers) => readers = {}

(***************************************************************************)
(* The pure functions of tx.rs and block.rs, called as their tests call    *)
(* them: Transactions(txs).hash() and BlockHeader::mine_new.               *)
(***************************************************************************)
\* the transactions and the longest sequence of them that is hashed
NumPureTx == 3
MaxPureLen == 4

PureTxSeqs == SeqsUpTo(1..NumPureTx, MaxPureLen)

\* hashes for the fields of a header: of no block, of the genesis block and
\* of sequences of one or two transactions
PureHashes ==
    {ZERO_HASH, GENESIS_TXS_HASH, BlockHeader_hash(GENESIS_HEADER)}
        \cup {Transactions_hash(txs) : txs \in SeqsUpTo(1..NumPureTx, 2) \ {<<>>}}

PureDifficulties == {0} \cup Difficulties

InitPure == StartWith(Node_new(DEFAULT_SOCKET, {}))

\* Transactions(txs).hash()
HashTransactions(txs) ==
    /\ Accepting
    /\ alive' = ~Transactions_hash_panics(txs)
    /\ last' = IF Transactions_hash_panics(txs)
               THEN [op |-> "hash", txs |-> txs, panic |-> TRUE]
               ELSE [op |-> "hash", txs |-> txs, panic |-> FALSE,
                     ret |-> Transactions_hash(txs)]
    /\ UNCHANGED <<address, peers, mempool, chain, mining, detached, readers>>

\* BlockHeader::mine_new(prev_block_hash, merkle_hash, difficulty)
MineNew(prev_block_hash, merkle_hash, difficulty) ==
    LET initial == BlockHeader_new(prev_block_hash, merkle_hash, difficulty)
    IN  /\ Accepting
        /\ alive' = ~solve_panics(initial)
        /\ last' = IF solve_panics(initial)
                   THEN [op |-> "mine_new", initial |-> initial, panic |-> TRUE]
                   ELSE [op |-> "mine_new", initial |-> initial, panic |-> FALSE,
                         ret |-> BlockHeader_mine_new(prev_block_hash,
                                                      merkle_hash, difficulty)]
        /\ UNCHANGED <<address, peers, mempool, chain, mining, detached, readers>>

\* the caller goes on to its next call
ReturnPure ==
    /\ alive
    /\ last # NoCall
    /\ last.op \in {"hash", "mine_new"}
    /\ last' = NoCall
    /\ UNCHANGED <<address, peers, mempool, chain, mining, detached, readers, alive>>

NextPure ==
    \/ \E txs \in PureTxSeqs : HashTransactions(txs)
    \/ \E prev_block_hash \in PureHashes, merkle_hash \in PureHashes,
          difficulty \in PureDifficulties :
           MineNew(prev_block_hash, merkle_hash, difficulty)
    \/ ReturnPure

SpecPure == InitPure /\ [][NextPure]_vars

\* C18: the Merkle hash of a non-empty sequence of odd length is the Merkle
\* hash of the sequence with its last transaction appended once more; in
\* particular the hash of <<t, t>> is the hash of <<t>>.
C18_MerkleOddEven ==
    (last.op = "hash" /\ ~last.panic /\ Len(last.txs) % 2 = 1) =>
        Transactions_hash(Append(last.txs, last.txs[Len(last.txs)])) = last.ret

\* the nonces of the full range that solve the header
Solutions(header) == {n \in Nonces : SolvesHeader(header, n)}

\* C19: when some nonce of the full range 0..NonceMax solves the header
\* made of (prev, merkle, difficulty), mine_new returns a valid header whose
\* nonce is the least such nonce.
C19_MineNewLeastNonce ==
    (/\ last.op = "mine_new"
     /\ ~has_leading_zeros_panics(ZERO_HASH, last.initial.difficulty)
     /\ Solutions(last.initial) # {}) =>
        /\ ~last.panic
        /\ BlockHeader_is_valid(last.ret)
        /\ last.ret = [last.initial EXCEPT !.nonce =
                          CHOOSE n \in Solutions(last.initial) :
                              \A k \in Solutions(last.initial) : n <= k]

\* main is between the handle of a message and the end of the iteration of
\* the loop for it: the mining command and the broadcast of the reply
MidIteration == last.op = "handle"

\* C21: the chain and the mempool change by mining only between the
\* iterations of the event loop: from the handle of a message to the
\* mining command and the broadcast of its reply, no mined block is added
\* and the mempool is not pruned.
C21_MiningBetweenIterations ==
    [][MidIteration => (chain' = chain /\ mempool' = mempool)]_vars

\* the mining task has mined its block and adds it to the node in this step
Integrates ==
    /\ mining.st = "hashing"
    /\ mining'.st \in {"broadcast", "finished"}
    /\ ~Block_mine_new_panics(mining.prev_hash, GLOBAL_DIFFICULTY, mining.txs)

\* the block that the task in flight mines
MinedBlock == Block_mine_new(mining.prev_hash, GLOBAL_DIFFICULTY, mining.txs)

\* C22: when the mining task adds its mined block to the node, the parent of
\* the block is still the tip, the block is accepted as new and it becomes
\* the tip: the miner of the node makes no block of a side branch.
C22_MinedBlockIsTip ==
    [][Integrates =>
          /\ chain.highest_block_hash = mining.prev_hash
          /\ mining'.st = "broadcast"
          /\ chain'.highest_block_hash = Block_hash(MinedBlock)]_vars

\* the transactions of the blocks of the store c
Committed(c) ==
    UNION {Range(c.blocks[h].block.transactions) : h \in DOMAIN c.blocks}

\* C23: Tx with a transaction that a block of the chain holds and the
\* mempool does not: the transaction enters the mempool again and the reply
\* carries it; and the snapshot of the mining task takes the transactions
\* of the mempool whether a block holds them or not, so that the node can
\* mine the transaction into a further block of the main chain.
C23_CommittedTxReenters ==
    /\ [](Handled("Tx") =>
            \A t \in Range(last.message.txs) \cap Committed(last.pre.chain) :
                Transaction_hash(t) \notin DOMAIN last.pre.mempool =>
                    /\ Transaction_hash(t) \in DOMAIN last.post.mempool
                    /\ last.reply.some
                    /\ t \in Range(last.reply.msg.txs))
    /\ [][(mining.st = "spawned" /\ mining'.st = "hashing") =>
              Range(mining'.txs) = Range(mempool)]_vars

\* the node has mined a block that is the tip and holds a transaction that
\* its parent holds too
C23_Witness ==
    /\ mining.st = "broadcast"
    /\ chain.highest_block_hash = Block_hash(mining.block)
    /\ mining.block.header.prev_block_hash \in DOMAIN chain.blocks
    /\ Range(mining.block.transactions)
          \cap Range(chain.blocks[mining.block.header.prev_block_hash]
                        .block.transactions) # {}

\* C24: when add_block returns false, the store is as it was before the
\* call: the same tip hash, and under every hash the same block and height,
\* also for a block that has the header hash of a stored block and other
\* transactions of the same Merkle hash.
C24_RejectionFrame ==
    (Returned /\ ~last.panic /\ ~last.ret) => chain = last.pre

\* C25: every stored block but genesis has a header hash with at least
\* GLOBAL_DIFFICULTY leading zero bytes and declares no lower difficulty,
\* whatever blocks have been presented to the store.
C25_GlobalDifficultyHolds ==
    \A h \in DOMAIN chain.blocks \ {GenesisHash} :
        /\ has_leading_zeros(h, GLOBAL_DIFFICULTY)
        /\ chain.blocks[h].block.header.difficulty >= GLOBAL_DIFFICULTY

\* handle returns NewBlock for reply in this step, which main broadcasts
RepliesNewBlock ==
    /\ last = NoCall
    /\ last'.op = "handle"
    /\ last'.reply.some
    /\ last'.reply.msg.type = "NewBlock"

\* the mining task has its block accepted in this step, which it broadcasts
BroadcastsMined == mining.st = "hashing" /\ mining'.st = "broadcast"

\* C26: the node sends NewBlock for a hash at most once: the store never
\* loses a hash, and the reply of handle and the broadcast of the mining
\* task carry only a block whose hash enters the store in that very step; a
\* NewBlock whose hash is stored already gets no reply.
C26_BlockGossipOnce ==
    /\ [](Handled("NewBlock") =>
            (Block_hash(last.message.block) \in DOMAIN last.pre.chain.blocks
                => ~last.reply.some))
    /\ [][/\ DOMAIN chain.blocks \subseteq DOMAIN chain'.blocks
          /\ RepliesNewBlock =>
                /\ last'.reply.msg.block = last'.message.block
                /\ Block_hash(last'.message.block) \notin DOMAIN chain.blocks
                /\ Block_hash(last'.message.block) \in DOMAIN chain'.blocks
          /\ BroadcastsMined =>
                /\ Block_hash(mining'.block) \notin DOMAIN chain.blocks
                /\ Block_hash(mining'.block) \in DOMAIN chain'.blocks]_vars

\* the block that the node has mined and is about to broadcast arrives from
\* a peer, and gets no reply
C26_Witness ==
    /\ Handled("NewBlock")
    /\ mining.st = "broadcast"
    /\ Block_hash(mining.block) = Block_hash(last.message.block)
    /\ ~last.reply.some

\* no iteration of the event loop is pending and the one mining task has
\* had its block accepted: without a further message no task is spawned,
\* and the task at hand takes no snapshot any more
AtRest ==
    /\ alive
    /\ last = NoCall
    /\ mining.st \in {"broadcast", "sending"}

\* C27: a transaction of the mempool is taken by the snapshot of a mining
\* task even when no further message arrives, also when it arrived while a
\* task was running: the node does not come to rest with a transaction in
\* its mempool that no snapshot to come will take.
C27_NoStalledTransaction == AtRest => DOMAIN mempool = {}

====
